---------------------------- MODULE Spec2Model ----------------------------
(***************************************************************************)
(* A model of the RiceGuard backend (src/backend/main.py): the /analyze    *)
(* handler, its two detection sources (yolo_infer, roboflow_infer), the    *)
(* lazily loaded process-wide model handle, and the post-processing that   *)
(* turns raw predictions into counts, a broken percentage, an average      *)
(* confidence and the annotated rectangles.                                *)
(*                                                                         *)
(* Units.  Python's floats are modelled by exact integers:                 *)
(*   - a confidence c is held as the integer c * ConfDen;                  *)
(*   - a bounding-box coordinate v (pixels) is held as v * BoxScale, with  *)
(*     BoxScale = 2 * 640, so that x - bw/2 and x1 * w / 640 are exact;    *)
(*   - round(v, 3) is held in thousandths, round(v, 2) in hundredths.      *)
(* A JSON prediction is a function from its keys to its values, so that a  *)
(* key may be absent, as in a Python dict.                                 *)
(***************************************************************************)
EXTENDS Integers, Sequences, FiniteSets, TLC

\* ------------------------------------------------------------------ bounds
MaxPreds == 2      \* predictions in one reply of the remote service
MaxBoxes == 3      \* boxes in one result of the local model
MaxInflight == 2   \* handlers suspended at `await file.read()` at once
ConfDen == 4       \* confidences are multiples of 1/ConfDen
ImgW == 4          \* width of the decoded test image, pixels
ImgH == 6          \* height of the decoded test image, pixels

\* ------------------------------------------------------- program constants
YoloInput == 640   \* cv2.resize(rgb, (640, 640)); x1 * w / 640
ThreshNum == 3     \* avg * 0.75 = avg * ThreshNum / ThreshDen
ThreshDen == 4
ConfDigits == 1000 \* round(., 3)
PctDigits == 100   \* round(., 2)
Percent == 100     \* (broken / total) * 100

BoxScale == 2 * YoloInput

None == "None"

\* --------------------------------------------------------------- arithmetic
Max(a, b) == IF a >= b THEN a ELSE b
Min(a, b) == IF a <= b THEN a ELSE b

RECURSIVE Sum(_)
Sum(s) == IF s = <<>> THEN 0 ELSE Head(s) + Sum(Tail(s))

\* round(n / d) to the nearest integer, ties to even (d > 0): Python's round
Round(n, d) ==
    LET q == n \div d
        r == n - q * d
    IN  IF 2 * r < d THEN q
        ELSE IF 2 * r > d THEN q + 1
        ELSE IF q % 2 = 0 THEN q ELSE q + 1

\* int(n / d): truncation toward zero (d > 0)
Trunc(n, d) == IF n >= 0 THEN n \div d ELSE -((-n) \div d)


\* ------------------------------------------------------------------- state
VARIABLES
    ROBOFLOW_API_KEY,   \* os.getenv("ROBOFLOW_API_KEY", ""), fixed at import
    ROBOFLOW_MODEL_ID,  \* os.getenv("ROBOFLOW_MODEL_ID", ...), fixed at import
    artifact,           \* os.path.exists(MODEL_PATH)
    model,              \* the process-wide handle: NoModel, or the k-th YOLO object
    loads,              \* how many times `model = YOLO(MODEL_PATH)` has assigned
    reading,            \* handlers suspended at `await file.read()`
    last                \* the request that completed last: inputs, calls, answer

vars == <<ROBOFLOW_API_KEY, ROBOFLOW_MODEL_ID, artifact, model, loads, reading, last>>

NoModel == 0

\* ------------------------------------------------------- labels and mapping
BrokenLabels == {"broken", "broken_grain"}
WholeLabels == {"whole", "whole_grain", "full"}

\* p.get(key, default) of a JSON object
Get(p, key, default) == IF key \in DOMAIN p THEN p[key] ELSE default

\* a mutant of Canon: whatever is not broken counts as whole
CanonLoose(cls) ==
    IF cls \in BrokenLabels THEN "broken_grain" ELSE "whole_grain"

\* the if / elif / else on cls in roboflow_infer's second loop
Canon(cls) ==
    IF cls \in BrokenLabels THEN "broken_grain"
    ELSE IF cls \in WholeLabels THEN "whole_grain"
    ELSE None

\* float(p.get("confidence", 0.0))
Conf(p) == Get(p, "confidence", 0)

\* first loop of roboflow_infer: the confidences of one category, in order
RECURSIVE Scores(_, _)
Scores(predictions, category) ==
    IF predictions = <<>> THEN <<>>
    ELSE LET p == Head(predictions)
             rest == Scores(Tail(predictions), category)
         IN  IF Canon(Get(p, "class", None)) = category
             THEN <<Conf(p)>> \o rest
             ELSE rest

\* np.mean(scores) if scores else 0, as a fraction num / den
Mean(scores) ==
    IF scores = <<>> THEN [num |-> 0, den |-> 1]
    ELSE [num |-> Sum(scores), den |-> Len(scores)]

\* a mutant of CategoryMin: the factor is inverted
CategoryMinInverted(scores) ==
    [num |-> ThreshDen * Mean(scores).num, den |-> ThreshNum * Mean(scores).den]

\* avg * 0.75
CategoryMin(scores) ==
    [num |-> ThreshNum * Mean(scores).num, den |-> ThreshDen * Mean(scores).den]

\* a mutant of Below: `<=` written for `<`
BelowOrEqual(conf, min) == conf * min.den <= min.num

\* conf < broken_min / conf < whole_min
Below(conf, min) == conf * min.den < min.num

\* [max(0, x - bw/2), max(0, y - bh/2), min(w, x + bw/2), min(h, y + bh/2)]
ClipBox(p, w, h) ==
    << Max(0, BoxScale * p.x - YoloInput * p.width),
       Max(0, BoxScale * p.y - YoloInput * p.height),
       Min(BoxScale * w, BoxScale * p.x + YoloInput * p.width),
       Min(BoxScale * h, BoxScale * p.y + YoloInput * p.height) >>

\* a mutant of CountUp: the count is left as it was
CountKept(counts, cls) == counts

\* counts[cls] += 1
CountUp(counts, cls) == [counts EXCEPT ![cls] = @ + 1]

Detection(cls, conf, bbox) ==
    [class |-> cls, confidence |-> Round(ConfDigits * conf, ConfDen), bbox |-> bbox]

NoDetections ==
    [detections |-> <<>>, counts |-> [whole_grain |-> 0, broken_grain |-> 0],
     confs |-> <<>>, error |-> ""]

GeometryKeys == {"x", "y", "width", "height"}

\* one pass of roboflow_infer's second loop over prediction p
RoboflowBody(acc, p, broken_min, whole_min, w, h) ==
    LET cls == Canon(Get(p, "class", None))
        conf == Conf(p)
    IN  IF cls = None THEN acc
        ELSE IF cls = "broken_grain" /\ Below(conf, broken_min) THEN acc
        ELSE IF cls = "whole_grain" /\ Below(conf, whole_min) THEN acc
        ELSE IF ~(GeometryKeys \subseteq DOMAIN p)
             THEN [acc EXCEPT !.error = "KeyError"]
        ELSE [acc EXCEPT
                !.detections = Append(@, Detection(cls, conf, ClipBox(p, w, h))),
                !.counts = CountUp(@, cls),
                !.confs = Append(@, conf)]

RECURSIVE RoboflowLoop(_, _, _, _, _, _)
RoboflowLoop(acc, predictions, broken_min, whole_min, w, h) ==
    IF predictions = <<>> \/ acc.error # "" THEN acc
    ELSE RoboflowLoop(RoboflowBody(acc, Head(predictions), broken_min, whole_min, w, h),
                      Tail(predictions), broken_min, whole_min, w, h)

\* roboflow_infer from `predictions = response.json().get(...)` to its return
RoboflowPost(predictions, w, h) ==
    RoboflowLoop(NoDetections, predictions,
                 CategoryMin(Scores(predictions, "broken_grain")),
                 CategoryMin(Scores(predictions, "whole_grain")), w, h)

\* ------------------------------------------------------------ local detector
\* a mutant of GetModel: the `if model is None` test is dropped
GetModelReload(m, n, exists, loadOk) ==
    IF ~exists THEN [error |-> "FileNotFoundError", model |-> m, loads |-> n]
    ELSE IF ~loadOk THEN [error |-> "RuntimeError", model |-> m, loads |-> n]
    ELSE [error |-> "", model |-> n + 1, loads |-> n + 1]

\* get_model(): m, n are the handle and the load count on entry; loadOk says
\* whether YOLO(MODEL_PATH) returns (it raises on an unreadable artifact)
GetModel(m, n, exists, loadOk) ==
    IF m = NoModel
    THEN IF ~exists THEN [error |-> "FileNotFoundError", model |-> m, loads |-> n]
         ELSE IF ~loadOk THEN [error |-> "RuntimeError", model |-> m, loads |-> n]
         ELSE [error |-> "", model |-> n + 1, loads |-> n + 1]
    ELSE [error |-> "", model |-> m, loads |-> n]

\* [x1 * w / 640, y1 * h / 640, x2 * w / 640, y2 * h / 640]
ScaleBox(xyxy, w, h) ==
    << 2 * xyxy[1] * w, 2 * xyxy[2] * h, 2 * xyxy[3] * w, 2 * xyxy[4] * h >>

\* one pass of yolo_infer's loop over box (cls is r.names[int(box.cls[0])])
YoloBody(acc, box, w, h) ==
    IF box.cls \notin DOMAIN acc.counts THEN acc
    ELSE [acc EXCEPT
            !.detections = Append(@, Detection(box.cls, box.conf, ScaleBox(box.xyxy, w, h))),
            !.counts = CountUp(@, box.cls),
            !.confs = Append(@, box.conf)]

RECURSIVE YoloLoop(_, _, _, _)
YoloLoop(acc, boxes, w, h) ==
    IF boxes = <<>> THEN acc
    ELSE YoloLoop(YoloBody(acc, Head(boxes), w, h), Tail(boxes), w, h)

\* yolo_infer(rgb): fault names where the YOLO library raises, if it does
\* ("load": in YOLO(MODEL_PATH); "infer": in yolo(resized)); boxes are r.boxes
YoloInfer(w, h, m, n, exists, fault, boxes) ==
    LET g == GetModel(m, n, exists, fault # "load")
    IN  IF g.error # "" THEN [NoDetections EXCEPT !.error = g.error] @@ g
        ELSE IF fault = "infer" THEN [NoDetections EXCEPT !.error = "RuntimeError"] @@ g
        ELSE YoloLoop(NoDetections, boxes, w, h) @@ g

\* ----------------------------------------------------------- remote detector
\* `if not ROBOFLOW_API_KEY: raise HTTPException(status_code=503, ...)`
ConfigError(key, id) == IF key = "" THEN "HTTPException503" ELSE ""

NoReply == [kind |-> "none", status |-> 0, predictions |-> <<>>]

\* roboflow_infer(image_bytes, w, h): reply is what session.post meets
RoboflowInfer(key, id, reply, w, h) ==
    IF ConfigError(key, id) # ""
    THEN [NoDetections EXCEPT !.error = ConfigError(key, id)] @@ [posts |-> 0]
    ELSE IF reply.kind = "timeout"
    THEN [NoDetections EXCEPT !.error = "Timeout"] @@ [posts |-> 1]
    ELSE IF reply.kind = "connection"
    THEN [NoDetections EXCEPT !.error = "ConnectionError"] @@ [posts |-> 1]
    ELSE IF reply.kind = "status"
    THEN [NoDetections EXCEPT !.error = "HTTPException502"] @@ [posts |-> 1]
    ELSE RoboflowPost(reply.predictions, w, h) @@ [posts |-> 1]

\* ------------------------------------------------------------------ analyze
\* a mutant of Caught: `except Exception`
CaughtAny(error) == error # ""

\* `except FileNotFoundError`
Caught(error) == error = "FileNotFoundError"

\* a mutant of BrokenPct: the whole count is divided
WholePct(counts, total) ==
    IF total # 0 THEN Round(PctDigits * Percent * counts.whole_grain, total) ELSE 0

\* round((counts["broken_grain"] / total) * 100 if total else 0.0, 2), hundredths
BrokenPct(counts, total) ==
    IF total # 0 THEN Round(PctDigits * Percent * counts.broken_grain, total) ELSE 0

\* round(float(np.mean(confs)) if confs else 0.0, 3), thousandths
AvgConf(confs) ==
    IF confs # <<>> THEN Round(ConfDigits * Sum(confs), ConfDen * Len(confs)) ELSE 0

\* draw_boxes: one rectangle per detection, int() corners, colour by class
DrawBoxes(detections) ==
    [i \in 1..Len(detections) |->
        [rect |-> [k \in 1..4 |-> Trunc(detections[i].bbox[k], BoxScale)],
         color |-> IF detections[i].class = "whole_grain"
                   THEN <<0, 255, 0>> ELSE <<255, 0, 0>>]]

NoResult ==
    [total_grains |-> 0, whole_grains |-> 0, broken_grains |-> 0,
     broken_percentage |-> 0, avg_model_confidence |-> 0, processed_image |-> <<>>]

\* analyze from `total = len(detections)` to the returned AnalysisResult
Result(d) ==
    [total_grains |-> Len(d.detections),
     whole_grains |-> d.counts.whole_grain,
     broken_grains |-> d.counts.broken_grain,
     broken_percentage |-> BrokenPct(d.counts, Len(d.detections)),
     avg_model_confidence |-> AvgConf(d.confs),
     processed_image |-> DrawBoxes(d.detections)]

\* analyze after `await file.read()`: decode, local attempt, fallback, result.
\* Gives the completed request (the shape of `last`) with the handle and the
\* load count it leaves.
Analyze(img, fault, boxes, reply) ==
    IF ~img.ok
    THEN [handled |-> TRUE, image |-> img, fault |-> fault, boxes |-> boxes,
          reply |-> reply, calls |-> <<"decode_image">>, posts |-> 0,
          error |-> "ValueError", detections |-> <<>>, confs |-> <<>>,
          result |-> NoResult, model |-> model, loads |-> loads]
    ELSE
    LET loc == YoloInfer(img.w, img.h, model, loads, artifact, fault, boxes)
        fall == Caught(loc.error)
        rem == RoboflowInfer(ROBOFLOW_API_KEY, ROBOFLOW_MODEL_ID, reply, img.w, img.h)
        d == IF fall THEN rem ELSE loc
    IN  [handled |-> TRUE, image |-> img, fault |-> fault, boxes |-> boxes,
         reply |-> reply,
         calls |-> <<"decode_image", "yolo_infer">>
                   \o (IF fall THEN <<"roboflow_infer">> ELSE <<>>),
         posts |-> IF fall THEN rem.posts ELSE 0,
         error |-> d.error,
         detections |-> IF d.error = "" THEN d.detections ELSE <<>>,
         confs |-> IF d.error = "" THEN d.confs ELSE <<>>,
         result |-> IF d.error = "" THEN Result(d) ELSE NoResult,
         model |-> loc.model, loads |-> loc.loads]

\* ------------------------------------------------------------------- inputs
SeqsUpTo(S, n) == UNION {[1..k -> S] : k \in 0..n}

\* the uploaded bytes: undecodable, or an ImgW x ImgH image
BadImage == [ok |-> FALSE, w |-> 0, h |-> 0]
Images == {BadImage, [ok |-> TRUE, w |-> ImgW, h |-> ImgH]}

Labels == BrokenLabels \cup WholeLabels \cup {"husk"}
Confs == {-1, 1, ConfDen}

\* geometries of a remote prediction: inside the image, overlapping its
\* left and bottom edges, centred to the right of it, and without its keys
Inside == [x |-> ImgW - 2, y |-> ImgH - 3, width |-> 2, height |-> 2]
Overlapping == [x |-> 0, y |-> ImgH - 1, width |-> 3, height |-> 4]
Outside == [x |-> ImgW + 5, y |-> ImgH - 3, width |-> 2, height |-> 2]
NoKeys == <<>>

\* every label (or none) with every confidence (or none), inside the image
Labelled ==
    {c @@ f @@ Inside :
        c \in {("class" :> l) : l \in Labels} \cup {NoKeys},
        f \in {("confidence" :> v) : v \in Confs} \cup {NoKeys}}

\* a confident whole grain at each of the other geometries
Placed ==
    {("class" :> "whole") @@ ("confidence" :> ConfDen) @@ g :
        g \in {Overlapping, Outside, NoKeys}}

RawPredictions == Labelled \cup Placed

Replies ==
    {[kind |-> "ok", status |-> 200, predictions |-> ps] :
        ps \in SeqsUpTo(RawPredictions, MaxPreds)}
    \cup {[kind |-> "status", status |-> 500, predictions |-> <<>>],
          [kind |-> "timeout", status |-> 0, predictions |-> <<>>],
          [kind |-> "connection", status |-> 0, predictions |-> <<>>]}

\* r.boxes of the local model, in its 640 x 640 input space (the library
\* returns xyxy boxes clipped to that space, x1 <= x2 and y1 <= y2)
Boxes ==
    [cls : {"whole_grain", "broken_grain", "husk"},
     conf : {1, ConfDen},
     xyxy : {<<0, 0, YoloInput \div 2, YoloInput \div 2>>,
             <<YoloInput \div 4, YoloInput \div 2, YoloInput, YoloInput>>}]

\* the inputs a request consumes, given the ones before them
FaultsFor(img) ==
    IF ~img.ok THEN {"none"}
    ELSE {"none"}
         \cup (IF GetModel(model, loads, artifact, FALSE).error = "RuntimeError"
               THEN {"load"} ELSE {})
         \cup (IF GetModel(model, loads, artifact, TRUE).error = ""
               THEN {"infer"} ELSE {})

LocalError(img, fault) ==
    YoloInfer(img.w, img.h, model, loads, artifact, fault, <<>>).error

\* ------------------------------------------------------------------ actions
Idle ==
    [handled |-> FALSE, image |-> BadImage, fault |-> "none", boxes |-> <<>>,
     reply |-> NoReply, calls |-> <<>>, posts |-> 0, error |-> "",
     detections |-> <<>>, confs |-> <<>>, result |-> NoResult,
     model |-> NoModel, loads |-> 0]

\* the process after import: nothing loaded, no request yet
Init ==
    /\ ROBOFLOW_API_KEY \in {"", "key"}
    /\ ROBOFLOW_MODEL_ID \in {"", "rice-dataset-mjw6b-yby29/2"}
    /\ artifact \in BOOLEAN
    /\ model = NoModel
    /\ loads = 0
    /\ reading = 0
    /\ last = Idle

\* a request arrives: analyze starts and suspends at `await file.read()`
Receive ==
    /\ reading < MaxInflight
    /\ reading' = reading + 1
    /\ UNCHANGED <<ROBOFLOW_API_KEY, ROBOFLOW_MODEL_ID, artifact, model, loads, last>>

\* a suspended analyze resumes and runs to its end: it holds no other await,
\* so the event loop runs no other handler in between.  boxLists and replies
\* are what the local model and the remote service may answer.
ResumeWith(boxLists, replies) ==
    /\ reading > 0
    /\ \E img \in Images :
       \E fault \in FaultsFor(img) :
       \E boxes \in (IF img.ok /\ LocalError(img, fault) = ""
                     THEN boxLists ELSE {<<>>}) :
       \E reply \in (IF img.ok /\ Caught(LocalError(img, fault))
                        /\ ConfigError(ROBOFLOW_API_KEY, ROBOFLOW_MODEL_ID) = ""
                     THEN replies ELSE {NoReply}) :
          LET a == Analyze(img, fault, boxes, reply)
          IN  /\ last' = a
              /\ model' = a.model
              /\ loads' = a.loads
    /\ reading' = reading - 1
    /\ UNCHANGED <<ROBOFLOW_API_KEY, ROBOFLOW_MODEL_ID, artifact>>

\* the server: requests arrive and complete in any order, each detector
\* answering with at most one prediction
Resume ==
    ResumeWith({<<>>} \cup {<<b>> : b \in Boxes},
               {r \in Replies : \A i \in DOMAIN r.predictions : i = 1})

Next == Receive \/ Resume

Spec == Init /\ [][Next]_vars

\* one request, suspended at `await file.read()`, in a process that has or
\* has not loaded the model yet; the remote service answers with up to
\* MaxPreds predictions, the local model with up to MaxBoxes boxes
InitOne ==
    /\ ROBOFLOW_API_KEY \in {"", "key"}
    /\ ROBOFLOW_MODEL_ID \in {"", "rice-dataset-mjw6b-yby29/2"}
    /\ artifact \in BOOLEAN
    /\ model \in {NoModel} \cup (IF artifact THEN {NoModel + 1} ELSE {})
    /\ loads = model
    /\ reading = 1
    /\ last = Idle

ResumeOne == ResumeWith(SeqsUpTo(Boxes, MaxBoxes), Replies)

SpecOne == InitOne /\ [][ResumeOne]_vars

\* ------------------------------------------------------------------- claims
\* what the formulas below read off the completed request
Returned == last.handled /\ last.error = ""
RemoteInvoked == \E i \in DOMAIN last.calls : last.calls[i] = "roboflow_infer"
ViaRemote == Returned /\ RemoteInvoked
ViaLocal == Returned /\ ~RemoteInvoked
Categories == {"whole_grain", "broken_grain"}
Synonyms == {"broken", "broken_grain", "whole", "whole_grain", "full"}

\* the category the specification gives a label
CategoryOf(label) ==
    IF label \in {"broken", "broken_grain"} THEN "broken_grain"
    ELSE IF label \in {"whole", "whole_grain", "full"} THEN "whole_grain"
    ELSE "unrecognized"

\* the batch the detection source returned, as category and confidence
Batch ==
    IF RemoteInvoked
    THEN [i \in DOMAIN last.reply.predictions |->
            LET p == last.reply.predictions[i]
            IN  [category |-> IF "class" \in DOMAIN p
                              THEN CategoryOf(p.class) ELSE "unrecognized",
                 conf |-> IF "confidence" \in DOMAIN p THEN p.confidence ELSE 0]]
    ELSE [i \in DOMAIN last.boxes |->
            [category |-> CategoryOf(last.boxes[i].cls), conf |-> last.boxes[i].conf]]

\* the accepted detections, as category and (unrounded) confidence
Accepted ==
    [i \in DOMAIN last.detections |->
        [category |-> last.detections[i].class, conf |-> last.confs[i]]]

ConfsOf(category) ==
    LET Is(e) == e.category = category
        es == SelectSeq(Batch, Is)
    IN  [i \in DOMAIN es |-> es[i].conf]

\* conf >= 0.75 * mean(confidences of e's category), the mean of none being 0
MeetsThreshold(e) ==
    LET cs == ConfsOf(e.category)
    IN  IF cs = <<>> THEN e.conf >= 0
        ELSE 4 * Len(cs) * e.conf >= 3 * Sum(cs)

AdaptivelyAccepted(e) == e.category \in Categories /\ MeetsThreshold(e)
Recognized(e) == e.category \in Categories

\* C1: in every returned result, whole_grains + broken_grains = total_grains,
\* and total_grains is the number of accepted detections, whichever source
\* produced them.
C1_CountsAddUp ==
    Returned =>
        /\ last.result.whole_grains + last.result.broken_grains
               = last.result.total_grains
        /\ last.result.total_grains = Len(last.detections)

\* C1 witness: a remote result in which both categories were counted
C1_Witness ==
    /\ ViaRemote
    /\ last.result.whole_grains >= 1
    /\ last.result.broken_grains >= 1

\* C2 as claimed: in every returned result the accepted detections are
\* exactly the recognized predictions of the batch whose confidence is at
\* least 0.75 times the mean confidence of their category, in order.
C2_Original == Returned => Accepted = SelectSeq(Batch, AdaptivelyAccepted)

\* C2 amended: that holds of the results roboflow_infer produced; in a result
\* yolo_infer produced, every box labelled whole_grain or broken_grain is
\* accepted, whatever its confidence.
C2_AdaptiveRemoteOnly ==
    /\ ViaRemote => Accepted = SelectSeq(Batch, AdaptivelyAccepted)
    /\ ViaLocal =>
         LET Kept(b) == b.cls \in Categories
             kept == SelectSeq(last.boxes, Kept)
         IN  Accepted = [i \in DOMAIN kept |->
                            [category |-> kept[i].cls, conf |-> kept[i].conf]]

\* C2 witness: a remote result in which the threshold rejected a recognized
\* prediction and accepted another
C2_Witness ==
    /\ ViaRemote
    /\ Len(last.detections) >= 1
    /\ Len(SelectSeq(Batch, Recognized)) > Len(last.detections)

\* C3 as claimed: every accepted detection's box lies within the image,
\* 0 <= x1 <= x2 <= width and 0 <= y1 <= y2 <= height (read here of the
\* requests served with a model identifier configured).
C3_BoxWithinImage ==
    (Returned /\ ROBOFLOW_MODEL_ID # "") =>
        \A i \in DOMAIN last.detections :
            LET b == last.detections[i].bbox
            IN  /\ 0 <= b[1] /\ b[1] <= b[3] /\ b[3] <= BoxScale * last.image.w
                /\ 0 <= b[2] /\ b[2] <= b[4] /\ b[4] <= BoxScale * last.image.h

\* C8: a prediction whose label is none of the five synonyms, or is absent,
\* changes nothing: the result, the accepted detections and their
\* confidences are those the same source gives for the batch without it; and
\* every accepted detection is a whole_grain or a broken_grain.
C8_UnrecognizedIgnored ==
    Returned =>
        LET KnownP(p) == "class" \in DOMAIN p /\ p.class \in Synonyms
            KnownB(b) == b.cls \in Synonyms
            d == IF RemoteInvoked
                 THEN RoboflowPost(SelectSeq(last.reply.predictions, KnownP),
                                   last.image.w, last.image.h)
                 ELSE YoloLoop(NoDetections, SelectSeq(last.boxes, KnownB),
                               last.image.w, last.image.h)
        IN  /\ d.error = ""
            /\ last.result = Result(d)
            /\ last.detections = d.detections
            /\ last.confs = d.confs
            /\ \A i \in DOMAIN last.detections :
                   last.detections[i].class \in Categories

\* C8 witness: a remote result with an accepted detection whose batch held a
\* prediction with an unrecognized or absent label
C8_Witness ==
    /\ ViaRemote
    /\ Len(last.detections) >= 1
    /\ \E i \in DOMAIN Batch : Batch[i].category = "unrecognized"

\* C9: broken_percentage (in hundredths of a percent) is 0 when total_grains
\* is 0, otherwise within half a hundredth of 100 * broken_grains /
\* total_grains, and always in [0, 100].
C9_BrokenPercentage ==
    Returned =>
        LET r == last.result
            gap == r.broken_percentage * r.total_grains
                       - 100 * 100 * r.broken_grains
        IN  /\ r.total_grains = 0 => r.broken_percentage = 0
            /\ r.total_grains > 0 =>
                   /\ 2 * gap <= r.total_grains
                   /\ -2 * gap <= r.total_grains
            /\ 0 <= r.broken_percentage
            /\ r.broken_percentage <= 100 * 100

\* C9 witness: a result whose percentage had to be rounded (1 of 3 broken)
C9_Witness ==
    /\ Returned
    /\ last.result.total_grains = 3
    /\ last.result.broken_grains = 1
    /\ last.result.broken_percentage = 3333

\* C10: in a result of roboflow_infer whose predictions all have a confidence
\* in [0, 1], each category with a recognized prediction keeps the one with
\* its highest confidence, so its count is at least 1.
C10_CategoryNotEmptied ==
    (ViaRemote /\ \A i \in DOMAIN Batch : 0 <= Batch[i].conf /\ Batch[i].conf <= ConfDen)
    => \A c \in Categories :
          ConfsOf(c) # <<>> =>
              /\ \E i \in DOMAIN Accepted :
                    /\ Accepted[i].category = c
                    /\ \A j \in DOMAIN ConfsOf(c) : ConfsOf(c)[j] <= Accepted[i].conf
              /\ (IF c = "whole_grain" THEN last.result.whole_grains
                  ELSE last.result.broken_grains) >= 1

\* C10 witness: a remote result, confidences in [0, 1], in which a category
\* lost a prediction to its threshold and kept its best one
C10_Witness ==
    /\ ViaRemote
    /\ \A i \in DOMAIN Batch : 0 <= Batch[i].conf /\ Batch[i].conf <= ConfDen
    /\ \E c \in Categories :
          /\ Len(ConfsOf(c)) = 2
          /\ Len(SelectSeq(Accepted, LAMBDA e : e.category = c)) = 1

\* C4: whatever the order in which concurrent requests arrive and resume,
\* `model = YOLO(MODEL_PATH)` assigns at most once, and a handle once set is
\* never replaced.  (get_model takes no lock: it is the event loop, which
\* runs analyze from its one await to its end, that excludes a second load.)
C4_LoadedAtMostOnce ==
    /\ [](loads <= 1)
    /\ [][model # NoModel => model' = model]_vars

\* C4 witness: a request has loaded the model and returned while another,
\* received before the load, is still suspended and will find it loaded
C4_Witness ==
    /\ loads = 1
    /\ last.handled /\ last.loads = 1 /\ last.error = ""
    /\ reading = MaxInflight - 1

\* C5: analyze calls yolo_infer first and roboflow_infer if and only if the
\* local attempt met an absent artifact with no model loaded; the caller
\* never sees FileNotFoundError; any other failure of the local detector
\* reaches the caller and roboflow_infer is not called.
C5_FallbackOnlyWhenAbsent ==
    (last.handled /\ last.image.ok) =>
        /\ last.calls[2] = "yolo_infer"
        /\ RemoteInvoked <=> (~artifact /\ last.model = NoModel)
        /\ last.error # "FileNotFoundError"
        /\ last.fault # "none" =>
               /\ last.error = "RuntimeError"
               /\ ~RemoteInvoked
               /\ last.posts = 0

\* C5 witness: the artifact is absent and the fallback returned a result
C5_Witness == ViaRemote /\ ~artifact /\ last.result.total_grains >= 1

\* C6 as claimed: a request whose bytes do not decode, or that reaches the
\* remote detector with an empty credential or an empty model identifier,
\* fails with the invalid-image or the configuration error and issues no
\* HTTP request.
C6_FailFastBeforeNetwork ==
    (/\ last.handled
     /\ \/ ~last.image.ok
        \/ RemoteInvoked /\ (ROBOFLOW_API_KEY = "" \/ ROBOFLOW_MODEL_ID = ""))
    => /\ last.error \in {"ValueError", "HTTPException503"}
       /\ last.posts = 0

\* C7 as claimed: when the remote call fails (a non-success status, a
\* timeout, a connection failure) the request ends with the bad-gateway
\* error after exactly one attempt, and returns no result (read here of the
\* requests served with a model identifier configured).
C7_UpstreamErrorOnFailure ==
    (/\ last.handled
     /\ ROBOFLOW_MODEL_ID # ""
     /\ last.reply.kind \in {"status", "timeout", "connection"})
    => /\ last.error = "HTTPException502"
       /\ last.posts = 1
       /\ last.result = NoResult

=============================================================================
